---- MODULE Spec2Model ----
(***************************************************************************)
(* Model of src/main.c: a fixed-capacity graph with adjacency lists        *)
(* (Graph_New, Graph_AddVertex, Graph_AddEdge), and the recursive          *)
(* depth-first traversal dfs_topol / dfs_topol_traverse that records the   *)
(* finish order in a bounded queue and prints it.                          *)
(*                                                                         *)
(* List.h and Queue.h are included by main.c but are not part of the       *)
(* sources at hand; the List_* and Queue_* operators below follow their    *)
(* description in the specification (sections 4.1 and 4.2).                *)
(*                                                                         *)
(* The recursion of dfs_topol_traverse is an explicit stack of frames;     *)
(* each frame is one activation, and its field "at" is the position of     *)
(* that activation in the function body.                                   *)
(*                                                                         *)
(* dfs_topol hands &lista to dfs_topol_traverse, which hands &listado to   *)
(* Queue_Enqueue; what these pointer levels denote depends on Queue.h.     *)
(* Following section 4.5 of the specification, the visit enqueues on the   *)
(* queue that dfs_topol created and later drains.                          *)
(*                                                                         *)
(* A failed assert ends the program: the asserts on what the caller passes *)
(* (Graph_AddVertex, Graph_AddEdge) are guards, and the asserts that the   *)
(* traversal itself can trip lead to pc = "abort".  Graph_Print and        *)
(* Graph_Delete take no part in any property below and are left out.       *)
(***************************************************************************)
EXTENDS Integers, Sequences, FiniteSets, TLC

\* ------------------------------------------------------------------ bounds

\* Largest capacity the unconstrained caller passes to Graph_New.
MaxSize == 3

\* The unconstrained caller stops adding edges once the adjacency lists
\* hold this many entries in total.
MaxEntries == 3

\* Longest chain graph 1 -> 2 -> ... -> n built by the scripted caller.
MaxChain == 10

\* ------------------------------------------------------- program constants

MAX_VERTICES == 9

WHITE == "WHITE"
GRAY == "GRAY"
BLACK == "BLACK"

eGraphType_UNDIRECTED == "UNDIRECTED"
eGraphType_DIRECTED == "DIRECTED"

\* Keys of the unconstrained caller.  The program only compares keys for
\* equality, with each other and with the 0 of a calloc'ed slot, so the
\* caller gives a new vertex either the key 0 or the key len + 1, which no
\* vertex has yet, and names any of these keys in Graph_AddEdge.
Keys == 0 .. MaxSize

\* ------------------------------------------------------------ List (List.h)

\* A vertex whose neighbors pointer is NULL.
NULL == [alloc |-> FALSE, items |-> << >>, cursor |-> 0]

\* List_New(): an empty list; the cursor is at the end (position 0).
List_New == [alloc |-> TRUE, items |-> << >>, cursor |-> 0]

\* List_Find( list, index ): linear scan on the neighbor index.
List_Find(list, index) == \E k \in 1 .. Len(list.items) : list.items[k].index = index

\* List_Push_back( list, index, weight ): append at the back.
List_Push_back(list, index, weight) ==
    [list EXCEPT !.items = Append(@, [index |-> index, weight |-> weight])]

\* List_Cursor_front( list ): cursor on the first entry, or at the end if empty.
List_Cursor_front(list) ==
    [list EXCEPT !.cursor = IF Len(list.items) > 0 THEN 1 ELSE 0]

\* List_Cursor_end( list ): the cursor is past the last entry.
List_Cursor_end(list) == list.cursor = 0

\* List_Cursor_next( list ): one entry forward; past the last one is the end.
List_Cursor_next(list) ==
    [list EXCEPT !.cursor = IF @ < Len(list.items) THEN @ + 1 ELSE 0]

\* List_Cursor_get( list ): the entry under the cursor.
List_Cursor_get(list) == list.items[list.cursor]

\* ---------------------------------------------------------- Queue (Queue.h)

\* Queue_New( capacity ): an empty queue of that capacity.
Queue_New(capacity) == [items |-> << >>, capacity |-> capacity]

\* Queue_Len( q ): the number of elements stored now.
Queue_Len(q) == Len(q.items)

\* Queue_Enqueue on a queue for which this holds is a failed precondition.
Queue_IsFull(q) == Len(q.items) >= q.capacity

\* Queue_Enqueue( q, val ): append at the tail.
Queue_Enqueue(q, val) == [q EXCEPT !.items = Append(@, val)]

\* Queue_Dequeue( q ): the value it returns, and the queue afterwards.
Queue_Front(q) == Head(q.items)

Queue_Dequeue(q) == [q EXCEPT !.items = Tail(@)]

\* ------------------------------------------------------------------ Vertex

\* One element of calloc( size, sizeof( Vertex ) ): every field is zero.
ZeroVertex ==
    [data |-> 0, neighbors |-> NULL, distance |-> 0, predecessor |-> 0,
     color |-> WHITE, discovery_time |-> 0, finish_time |-> 0]

Vertex_HasNeighbors(v) == v.neighbors.alloc

Vertex_Start(v) == [v EXCEPT !.neighbors = List_Cursor_front(@)]

Vertex_Next(v) == [v EXCEPT !.neighbors = List_Cursor_next(@)]

Vertex_End(v) == List_Cursor_end(v.neighbors)

Vertex_GetNeighborIndex(v) == List_Cursor_get(v.neighbors)

\* ------------------------------------------------------------------- state

VARIABLES
    vertices,   \* Graph.vertices: index -> Vertex, over 0 .. size-1
    size,       \* Graph.size: the capacity
    len,        \* Graph.len: populated slots are 0 .. len-1
    type,       \* Graph.type
    last,       \* the caller's last call (op) and what it returned (ret)
    args,       \* under SpecBuild, the keys passed to the last Graph_AddEdge
    start,      \* dfs_topol's parameter start; -1 before the call
    script,     \* the caller: any calls, or a fixed list of calls still to make
    pc,         \* "build", "dfs", "drain", "done" or "abort"
    stack,      \* activations of dfs_topol_traverse, innermost last
    time_,      \* dfs_topol's local time_
    lista,      \* dfs_topol's queue
    i,          \* the index of dfs_topol's printing loop
    printed,    \* the lines printed by dfs_topol
    fault       \* the failed assertion when pc = "abort"

vars == <<vertices, size, len, type, last, args, start, script, pc, stack,
          time_, lista, i, printed, fault>>

Indices == 0 .. size - 1

Populated == 0 .. len - 1

\* ------------------------------------------------------- private functions

\* find( vertices, size, key ): index of the first match among the first n
\* slots, -1 if none.
find(vs, n, key) ==
    IF \E k \in 0 .. n - 1 : vs[k].data = key
    THEN CHOOSE k \in 0 .. n - 1 :
             /\ vs[k].data = key
             /\ \A j \in 0 .. k - 1 : vs[j].data # key
    ELSE -1

find_neighbor(v, index) ==
    IF v.neighbors.alloc THEN List_Find(v.neighbors, index) ELSE FALSE

\* insert() without the search for the index: every call pushes an entry.
insert_NoCheck(vertex, index, weigth) ==
    LET v1 == IF ~vertex.neighbors.alloc
              THEN [vertex EXCEPT !.neighbors = List_New]
              ELSE vertex
    IN  [v1 EXCEPT !.neighbors = List_Push_back(@, index, weigth)]

\* insert( vertex, index, weight ): the vertex afterwards.
insert(vertex, index, weigth) ==
    LET v1 == IF ~vertex.neighbors.alloc
              THEN [vertex EXCEPT !.neighbors = List_New]
              ELSE vertex
    IN  IF v1.neighbors.alloc /\ ~find_neighbor(v1, index)
        THEN [v1 EXCEPT !.neighbors = List_Push_back(@, index, weigth)]
        ELSE v1

\* Graph_GetVertexByKey( g, key ), as an index; -1 stands for NULL.
Graph_GetVertexByKey(vs, n, key) ==
    IF \E k \in 0 .. n - 1 : vs[k].data = key
    THEN CHOOSE k \in 0 .. n - 1 :
             /\ vs[k].data = key
             /\ \A j \in 0 .. k - 1 : vs[j].data # key
    ELSE -1

\* The assertion of Graph_GetVertexByIndex and Graph_GetDataByIndex.
ValidIndex(n, vertex_idx) == 0 <= vertex_idx /\ vertex_idx < n

TotalEntries == LET RECURSIVE Sum(_)
                    Sum(k) == IF k < 0 THEN 0
                              ELSE Len(vertices[k].neighbors.items) + Sum(k - 1)
                IN  Sum(size - 1)

\* ------------------------------------------------------------- the callers

Call(op, a, b) == [op |-> op, a |-> a, b |-> b]

AnyCaller == [fixed |-> FALSE, calls |-> << >>]

\* The caller may make call c now.
MayCall(c) ==
    IF script.fixed
    THEN script.calls # << >> /\ Head(script.calls) = c
    ELSE TRUE

Called == IF script.fixed THEN [script EXCEPT !.calls = Tail(@)] ELSE script

\* main(): the calls it makes after Graph_New( MAX_VERTICES, DIRECTED ).
MainScript ==
    << Call("AddVertex", 100, 0), Call("AddVertex", 200, 0),
       Call("AddVertex", 300, 0), Call("AddVertex", 400, 0),
       Call("AddVertex", 500, 0), Call("AddVertex", 600, 0),
       Call("AddVertex", 700, 0), Call("AddVertex", 800, 0),
       Call("AddVertex", 900, 0),
       Call("AddEdge", 100, 400), Call("AddEdge", 200, 400),
       Call("AddEdge", 300, 400), Call("AddEdge", 400, 600),
       Call("AddEdge", 400, 800), Call("AddEdge", 500, 600),
       Call("AddEdge", 600, 700), Call("AddEdge", 700, 900),
       Call("AddEdge", 800, 900),
       Call("dfs_topol", 100, 0) >>

\* A caller like main() for the chain 1 -> 2 -> ... -> n.
ChainScript(n) ==
    [k \in 1 .. n |-> Call("AddVertex", k, 0)]
    \o [k \in 1 .. n - 1 |-> Call("AddEdge", k, k + 1)]
    \o << Call("dfs_topol", 1, 0) >>

\* ----------------------------------------------------------- initial state

\* Graph_New( n, t ), and what dfs_topol's locals hold before it runs.
Graph_New(n, t) ==
    /\ size = n
    /\ len = 0
    /\ type = t
    /\ vertices = [k \in 0 .. n - 1 |-> ZeroVertex]
    /\ last = [op |-> "Graph_New", ret |-> TRUE]
    /\ args = << >>
    /\ start = -1
    /\ pc = "build"
    /\ stack = << >>
    /\ time_ = 0
    /\ lista = Queue_New(0)
    /\ i = 0
    /\ printed = << >>
    /\ fault = "none"

Init ==
    /\ script = AnyCaller
    /\ \E n \in 1 .. MaxSize, t \in {eGraphType_UNDIRECTED, eGraphType_DIRECTED} :
           Graph_New(n, t)

InitMain ==
    \/ /\ script = [fixed |-> TRUE, calls |-> MainScript]
       /\ Graph_New(MAX_VERTICES, eGraphType_DIRECTED)
    \/ \E n \in 1 .. MaxChain :
           /\ script = [fixed |-> TRUE, calls |-> ChainScript(n)]
           /\ Graph_New(n, eGraphType_DIRECTED)

\* ---------------------------------------------------------- graph building

\* Graph_AddVertex( g, data ).  Keys are unique: the caller never adds a key
\* twice.
Graph_AddVertex(data) ==
    /\ pc = "build"
    /\ MayCall(Call("AddVertex", data, 0))
    /\ len < size                                          \* assert
    /\ \A k \in Populated : vertices[k].data # data        \* keys are unique
    /\ vertices' = [vertices EXCEPT ![len] = [@ EXCEPT !.data = data,
                                                       !.neighbors = NULL]]
    /\ len' = len + 1
    /\ last' = [op |-> "AddVertex", ret |-> TRUE]
    /\ args' = << >>
    /\ script' = Called
    /\ UNCHANGED <<size, type, start, pc, stack, time_, lista, i, printed, fault>>

\* Graph_AddEdge's inserts without the test of the graph's type: the edge
\* back is inserted on a DIRECTED graph too.
AddEdgeInserts_BothWays(vs, t, start_idx, finish_idx) ==
    LET vs1 == [vs EXCEPT ![start_idx] = insert(@, finish_idx, 0)]
    IN  [vs1 EXCEPT ![finish_idx] = insert(@, start_idx, 0)]

\* The vertices after Graph_AddEdge's inserts, for indices already found.
AddEdgeInserts(vs, t, start_idx, finish_idx) ==
    LET vs1 == [vs EXCEPT ![start_idx] = insert(@, finish_idx, 0)]
    IN  IF t = eGraphType_UNDIRECTED
        THEN [vs1 EXCEPT ![finish_idx] = insert(@, start_idx, 0)]
        ELSE vs1

\* Graph_AddEdge( g, start, finish ); last.ret is what it returns.
Graph_AddEdge(from, finish) ==
    /\ pc = "build"
    /\ MayCall(Call("AddEdge", from, finish))
    /\ len > 0                                             \* assert
    /\ script.fixed \/ TotalEntries < MaxEntries
    /\ LET start_idx == find(vertices, size, from)
           finish_idx == find(vertices, size, finish)
       IN  IF start_idx = -1 \/ finish_idx = -1
           THEN /\ vertices' = vertices
                /\ last' = [op |-> "AddEdge", ret |-> FALSE]
           ELSE /\ vertices' = AddEdgeInserts(vertices, type, start_idx,
                                              finish_idx)
                /\ last' = [op |-> "AddEdge", ret |-> TRUE]
    /\ script' = Called
    /\ UNCHANGED <<size, len, type, start, pc, stack, time_, lista, i, printed,
                   fault>>

\* ---------------------------------------------------------------- dfs_topol

\* The first loop of dfs_topol.
ResetVertex(v) ==
    [v EXCEPT !.color = WHITE, !.predecessor = -1, !.discovery_time = 0,
              !.finish_time = 0]

Frame(v, at) == [v |-> v, at |-> at]

\* dfs_topol( g, start ) up to its call of dfs_topol_traverse.  The caller
\* passes the key of a populated vertex, and traverses once.
dfs_topol(key) ==
    /\ pc = "build"
    /\ MayCall(Call("dfs_topol", key, 0))
    /\ Graph_GetVertexByKey(vertices, len, key) # -1
    /\ start' = key
    /\ LET s == Graph_GetVertexByKey(vertices, len, key)
           vs == [k \in Indices |->
                     IF k \in Populated THEN ResetVertex(vertices[k])
                     ELSE vertices[k]]
       IN  /\ vertices' = [vs EXCEPT ![s].color = GRAY]
           /\ stack' = << Frame(s, "enter") >>
    /\ lista' = Queue_New(MAX_VERTICES)
    /\ time_' = 0
    /\ pc' = "dfs"
    /\ last' = [op |-> "dfs_topol", ret |-> TRUE]
    /\ args' = << >>
    /\ script' = Called
    /\ UNCHANGED <<size, len, type, i, printed, fault>>

Top == stack[Len(stack)]

\* Line 500 with the test "is not BLACK": a GRAY neighbor is visited again.
Unvisited_NotBlack(vs, w) == vs[w].color # BLACK

\* Line 500 with the wrong color constant: no neighbor is ever visited.
Unvisited_Black(vs, w) == vs[w].color = BLACK

\* Line 500: the neighbor w has not been discovered yet.
Unvisited(vs, w) == vs[w].color = WHITE

\* Lines 504-505 with v's index, not its data, as the predecessor.
Discover_PredIndex(vs, v, w) ==
    [vs EXCEPT ![w].color = GRAY, ![w].predecessor = v]

\* Lines 504-505: w turns GRAY and gets v's data as its predecessor.
Discover(vs, v, w) ==
    [vs EXCEPT ![w].color = GRAY, ![w].predecessor = vs[v].data]

\* Lines 517-519 without Vertex_SetColor( v, BLACK ).
FinishVertex_StaysGray(vs, v, t) ==
    [vs EXCEPT ![v].discovery_time = t]

\* Lines 517-519: v turns BLACK; the second time stamp goes through
\* Vertex_SetDiscovery_time as well.
FinishVertex(vs, v, t) ==
    [vs EXCEPT ![v].color = BLACK, ![v].discovery_time = t]

\* Line 521 with v's index, not its data, enqueued.
EnqueuedValue_Index(vs, v) == v

\* Line 521: the value that is enqueued for v.
EnqueuedValue(vs, v) == vs[v].data

SetTop(at) == [stack EXCEPT ![Len(stack)].at = at]

\* dfs_topol_traverse, lines 490-496: time stamp, GRAY, and Vertex_Start.
Visit ==
    /\ pc = "dfs"
    /\ Top.at = "enter"
    /\ LET v == Top.v
           v1 == [vertices[v] EXCEPT !.discovery_time = time_ + 1,
                                     !.color = GRAY]
       IN  IF Vertex_HasNeighbors(v1)
           THEN /\ vertices' = [vertices EXCEPT ![v] = Vertex_Start(v1)]
                /\ stack' = SetTop("loop")
           ELSE /\ vertices' = [vertices EXCEPT ![v] = v1]
                /\ stack' = SetTop("finish")
    /\ time_' = time_ + 1
    /\ UNCHANGED <<size, len, type, last, args, start, script, pc, lista, i, printed, fault>>

\* The body of the for loop, lines 498-508, up to the recursive call.
Inspect ==
    /\ pc = "dfs"
    /\ Top.at = "loop"
    /\ ~Vertex_End(vertices[Top.v])
    /\ LET v == Top.v
           w == Vertex_GetNeighborIndex(vertices[v]).index
       IN  IF ~ValidIndex(len, w)
           THEN /\ pc' = "abort"
                /\ fault' = "Graph_GetVertexByIndex"
                /\ UNCHANGED <<vertices, stack>>
           ELSE /\ IF Unvisited(vertices, w)
                   THEN /\ vertices' = Discover(vertices, v, w)
                        /\ stack' = Append(SetTop("next"), Frame(w, "enter"))
                   ELSE /\ vertices' = vertices
                        /\ stack' = SetTop("next")
                /\ UNCHANGED <<pc, fault>>
    /\ UNCHANGED <<size, len, type, last, args, start, script, time_, lista, i, printed>>

\* The increment of the for loop: Vertex_Next( v ).
Advance ==
    /\ pc = "dfs"
    /\ Top.at = "next"
    /\ vertices' = [vertices EXCEPT ![Top.v] = Vertex_Next(@)]
    /\ stack' = SetTop("loop")
    /\ UNCHANGED <<size, len, type, last, args, start, script, pc, time_, lista, i, printed,
                   fault>>

\* The for loop ends: Vertex_End( v ) holds.
LoopEnd ==
    /\ pc = "dfs"
    /\ Top.at = "loop"
    /\ Vertex_End(vertices[Top.v])
    /\ stack' = SetTop("finish")
    /\ UNCHANGED <<vertices, size, len, type, last, args, start, script, pc, time_, lista, i,
                   printed, fault>>

\* Lines 517-521: BLACK, the second time stamp, the enqueue, and the return.
Finish ==
    /\ pc = "dfs"
    /\ Top.at = "finish"
    /\ LET v == Top.v
       IN  /\ vertices' = FinishVertex(vertices, v, time_ + 1)
           /\ time_' = time_ + 1
           /\ IF Queue_IsFull(lista)
              THEN /\ pc' = "abort"
                   /\ fault' = "Queue_Enqueue"
                   /\ UNCHANGED <<lista, stack, i>>
              ELSE /\ lista' = Queue_Enqueue(lista, EnqueuedValue(vertices, v))
                   /\ stack' = SubSeq(stack, 1, Len(stack) - 1)
                   /\ IF Len(stack) = 1
                      THEN pc' = "drain" /\ i' = 0
                      ELSE UNCHANGED <<pc, i>>
                   /\ UNCHANGED fault
    /\ UNCHANGED <<size, len, type, last, args, start, script, printed>>

\* One iteration of dfs_topol's printing loop, lines 543-552.
PrintLine ==
    /\ pc = "drain"
    /\ i < Queue_Len(lista)
    /\ LET guardado == Queue_Front(lista)
           v == Graph_GetVertexByKey(vertices, len, guardado)
       IN  IF v = -1
           THEN \* Vertex_GetData( NULL )
                /\ pc' = "abort"
                /\ fault' = "NULL"
                /\ UNCHANGED <<printed, i>>
           ELSE /\ printed' = Append(printed,
                                     [i |-> i, data |-> vertices[v].data,
                                      pred |-> vertices[v].predecessor])
                /\ i' = i + 1
                /\ UNCHANGED <<pc, fault>>
    /\ lista' = Queue_Dequeue(lista)
    /\ UNCHANGED <<vertices, size, len, type, last, args, start, script, stack, time_>>

\* The printing loop ends and dfs_topol returns.
PrintEnd ==
    /\ pc = "drain"
    /\ ~(i < Queue_Len(lista))
    /\ pc' = "done"
    /\ UNCHANGED <<vertices, size, len, type, last, args, start, script, stack, time_, lista,
                   i, printed, fault>>

\* The keys the caller may pass now.
CallerKeys == IF script.fixed
              THEN {script.calls[k].a : k \in 1 .. Len(script.calls)}
                   \cup {script.calls[k].b : k \in 1 .. Len(script.calls)}
              ELSE Keys

\* The keys the caller may give a new vertex now.
NewKeys == IF script.fixed THEN CallerKeys ELSE {0, len + 1}

Next ==
    \/ \E data \in NewKeys : Graph_AddVertex(data)
    \/ \E from \in CallerKeys, finish \in CallerKeys :
           Graph_AddEdge(from, finish) /\ args' = << >>
    \/ \E key \in CallerKeys : dfs_topol(key)
    \/ Visit
    \/ Inspect
    \/ Advance
    \/ LoopEnd
    \/ Finish
    \/ PrintLine
    \/ PrintEnd

Spec == Init /\ [][Next]_vars

\* The calls that build the graph, for the claims about Graph_AddVertex and
\* Graph_AddEdge alone; here args records the keys of each Graph_AddEdge.
NextBuild ==
    \/ \E data \in NewKeys : Graph_AddVertex(data)
    \/ \E from \in CallerKeys, finish \in CallerKeys :
           Graph_AddEdge(from, finish) /\ args' = <<from, finish>>

SpecBuild == Init /\ [][NextBuild]_vars

SpecMain == InitMain /\ [][Next]_vars

\* ------------------------------------------------- notions of the claims

\* The neighbor indices in the adjacency list of slot v of vs.
NeighborsOf(vs, v) ==
    {vs[v].neighbors.items[k].index : k \in 1 .. Len(vs[v].neighbors.items)}

\* The slots reachable from the slots in S along adjacency entries.
RECURSIVE Reach(_)
Reach(S) ==
    LET T == S \cup UNION {NeighborsOf(vertices, v) : v \in S}
    IN  IF T = S THEN S ELSE Reach(T)

\* The vertex dfs_topol starts from, and what is reachable from it.
StartIdx == Graph_GetVertexByKey(vertices, len, start)

Reachable == Reach({StartIdx})

\* key is the key of a populated vertex.
IsKey(vs, n, key) == \E k \in 0 .. n - 1 : vs[k].data = key

\* The recursive visit has returned and nothing has been dequeued yet.
VisitReturned == pc = "drain" /\ i = 0

\* The index find() gives for a key.
IndexOf(key) == find(vertices, size, key)

\* This step is a call of Graph_AddEdge (under SpecBuild, where args tells
\* its keys).
AddEdgeStep == last'.op = "AddEdge" /\ args' # << >>

\* ------------------------------------------------------------------ claims

\* C1: when dfs_topol returns it has printed one line per vertex reachable
\* from the start vertex, and its queue is empty.
C1_OneLinePerVisited ==
    pc = "done" =>
        /\ Len(printed) = Cardinality(Reachable)
        /\ Queue_Len(lista) = 0

\* C2: Graph_AddEdge( g, a, b ) with a or b not the key of a populated
\* vertex returns false and leaves every adjacency list as it was.
C2_UnknownKeyRejected ==
    [][AddEdgeStep =>
          LET a == args'[1]
              b == args'[2]
          IN  (~IsKey(vertices, len, a) \/ ~IsKey(vertices, len, b))
              => /\ last'.ret = FALSE
                 /\ \A k \in Indices :
                        vertices'[k].neighbors = vertices[k].neighbors]_vars

\* main() has built its graph and dfs_topol( grafo, 100 ) has returned.
MainDone ==
    /\ pc = "done"
    /\ script.fixed
    /\ len = MAX_VERTICES
    /\ \A k \in 0 .. MAX_VERTICES - 1 : vertices[k].data = 100 * (k + 1)
    /\ start = 100

\* The keys of the vertices the traversal has finished.
VisitedKeys == {vertices[k].data : k \in {j \in Populated : vertices[j].color = BLACK}}

\* The predecessor recorded for the vertex with this key.
PredOf(key) == vertices[Graph_GetVertexByKey(vertices, len, key)].predecessor

\* C3 as stated: after main()'s traversal the visited set is
\* {100, 400, 600, 700, 800, 900}, and the predecessors are 400 <- 100,
\* 600 <- 400, 800 <- 400, 700 <- 600 and 900 <- 800.
C3_Original ==
    MainDone =>
        /\ VisitedKeys = {100, 400, 600, 700, 900, 800}
        /\ PredOf(400) = 100
        /\ PredOf(600) = 400
        /\ PredOf(800) = 400
        /\ PredOf(700) = 600
        /\ PredOf(900) = 800

\* C3 as amended: the same, except that the predecessor of 900 is 700, the
\* vertex from which 900 was first discovered.
C3_MainExample ==
    MainDone =>
        /\ VisitedKeys = {100, 400, 600, 700, 900, 800}
        /\ PredOf(400) = 100
        /\ PredOf(600) = 400
        /\ PredOf(800) = 400
        /\ PredOf(700) = 600
        /\ PredOf(900) = 700
        /\ PredOf(100) = -1

C3_Witness == MainDone /\ Len(printed) > 0

\* C4: after dfs_topol every populated vertex reachable from the start
\* vertex is BLACK and every other populated vertex is WHITE (none is GRAY).
C4_ColoringTerminalState ==
    pc \in {"drain", "done"} =>
        \A v \in Populated :
            vertices[v].color = IF v \in Reachable THEN BLACK ELSE WHITE

\* A traversal has returned with a vertex it reached and one it did not.
C4_Witness ==
    /\ pc = "done"
    /\ \E v \in Populated : v # StartIdx /\ vertices[v].color = BLACK
    /\ \E v \in Populated : v \notin Reachable

\* The populated vertices that are BLACK.
BlackVertices == {v \in Populated : vertices[v].color = BLACK}

\* How many times key occurs in the queue.
Occurrences(key) == Cardinality({k \in 1 .. Queue_Len(lista) : lista.items[k] = key})

EnqueueCalls == Queue_Len(lista) + Len(printed)
                + (IF fault = "Queue_Enqueue" THEN 1 ELSE 0)
                + (IF fault = "NULL" THEN 1 ELSE 0)

\* C6: the queue of dfs_topol has room for every vertex of the graph, so the
\* traversal never makes more calls of Queue_Enqueue than the queue's capacity.
C6_QueueFitsGraph ==
    pc \in {"dfs", "drain", "done", "abort"} =>
        /\ EnqueueCalls <= lista.capacity

\* C7 as stated: Graph_AddEdge( g, a, b ) for keys of populated vertices puts
\* b's index in a's list; on an UNDIRECTED graph it puts a's index in b's list
\* too, and on a DIRECTED graph it leaves b's list as it was.
C7_Original ==
    [][AddEdgeStep =>
          LET a == args'[1]
              b == args'[2]
              ia == IndexOf(a)
              ib == IndexOf(b)
          IN  (IsKey(vertices, len, a) /\ IsKey(vertices, len, b))
              => /\ last'.ret = TRUE
                 /\ ib \in NeighborsOf(vertices', ia)
                 /\ IF type = eGraphType_UNDIRECTED
                    THEN ia \in NeighborsOf(vertices', ib)
                    ELSE vertices'[ib].neighbors = vertices[ib].neighbors]_vars

\* C7 as amended: on a DIRECTED graph the call leaves every list but a's as
\* it was, so b's list is unchanged unless b = a (a self-edge).
C7_Symmetry ==
    [][AddEdgeStep =>
          LET a == args'[1]
              b == args'[2]
              ia == IndexOf(a)
              ib == IndexOf(b)
          IN  (IsKey(vertices, len, a) /\ IsKey(vertices, len, b))
              => /\ last'.ret = TRUE
                 /\ ib \in NeighborsOf(vertices', ia)
                 /\ IF type = eGraphType_UNDIRECTED
                    THEN ia \in NeighborsOf(vertices', ib)
                    ELSE \A k \in Indices \ {ia} :
                             vertices'[k].neighbors = vertices[k].neighbors]_vars

\* A DIRECTED graph after a successful Graph_AddEdge, with an edge between
\* two populated vertices that has no edge back.
C7_Witness ==
    /\ last.op = "AddEdge"
    /\ last.ret = TRUE
    /\ type = eGraphType_DIRECTED
    /\ \E u \in Populated, v \in Populated :
           /\ u # v
           /\ v \in NeighborsOf(vertices, u)
           /\ u \notin NeighborsOf(vertices, v)

\* No adjacency list holds a neighbor index twice.
NoDuplicateNeighbors ==
    \A v \in Indices :
        \A j \in 1 .. Len(vertices[v].neighbors.items) :
            \A k \in 1 .. Len(vertices[v].neighbors.items) :
                vertices[v].neighbors.items[j].index
                    = vertices[v].neighbors.items[k].index => j = k

\* C8: no adjacency list ever holds a neighbor index twice, and a
\* Graph_AddEdge whose insert finds the index in the list already leaves that
\* list as it was and returns true.
C8_Uniqueness ==
    /\ []NoDuplicateNeighbors
    /\ [][AddEdgeStep =>
             LET ia == IndexOf(args'[1])
                 ib == IndexOf(args'[2])
             IN  (ia # -1 /\ ib # -1)
                 => /\ last'.ret = TRUE
                    /\ ib \in NeighborsOf(vertices, ia)
                           => vertices'[ia].neighbors = vertices[ia].neighbors
                    /\ (type = eGraphType_UNDIRECTED /\ ia # ib
                        /\ ia \in NeighborsOf(vertices, ib))
                           => vertices'[ib].neighbors = vertices[ib].neighbors]_vars

\* An UNDIRECTED graph with an edge between two vertices and a self-edge,
\* after a Graph_AddEdge that returned true: the second insert of the call
\* that made the self-edge found the index in the list already.
C8_Witness ==
    /\ last.op = "AddEdge"
    /\ last.ret = TRUE
    /\ type = eGraphType_UNDIRECTED
    /\ \E u \in Populated, v \in Populated :
           /\ u # v
           /\ v \in NeighborsOf(vertices, u)
           /\ u \in NeighborsOf(vertices, v)
           /\ u \in NeighborsOf(vertices, u)

\* No vertex has two activations of dfs_topol_traverse on the stack.
StackDistinct ==
    \A j \in 1 .. Len(stack) : \A k \in 1 .. Len(stack) :
        stack[j].v = stack[k].v => j = k

\* An activation that is about to start its neighbor loop is the first one
\* of its vertex in this traversal.
EnteredOnce ==
    (pc = "dfs" /\ Top.at = "enter") => vertices[Top.v].discovery_time = 0

\* Only the innermost activation moves a cursor, and only that of its vertex.
CursorMovedByOwner ==
    \A v \in Indices :
        vertices'[v].neighbors.cursor # vertices[v].neighbors.cursor
            => pc = "dfs" /\ Top.v = v /\ Top.at \in {"enter", "next"}

\* C9: during a traversal no vertex is visited by two activations, each
\* vertex's neighbor loop is started at most once, and the cursor of a list is
\* moved only by the innermost activation, which is that of the list's vertex.
C9_CursorNotReentered ==
    /\ [](StackDistinct /\ EnteredOnce)
    /\ [][CursorMovedByOwner]_vars

\* The loop of a nested activation has just skipped a neighbor that is GRAY:
\* an edge back to a vertex whose own loop is still running.
C9_Witness ==
    /\ pc = "dfs"
    /\ Len(stack) >= 2
    /\ Top.at = "next"
    /\ vertices[Vertex_GetNeighborIndex(vertices[Top.v]).index].color = GRAY
    /\ Vertex_GetNeighborIndex(vertices[Top.v]).index # Top.v

\* No slot is reachable from itself along one or more adjacency entries.
Acyclic == \A v \in Indices : v \notin Reach(NeighborsOf(vertices, v))

\* The position of key in the queue; 0 if it is not there.
PositionOf(key) ==
    IF \E k \in 1 .. Queue_Len(lista) : lista.items[k] = key
    THEN CHOOSE k \in 1 .. Queue_Len(lista) : lista.items[k] = key
    ELSE 0

\* C10: on an acyclic DIRECTED graph, when the visit has returned, for every
\* adjacency entry u -> v with u reachable from the start vertex, v's key is
\* in the queue before u's key.
C10_ReverseTopological ==
    (VisitReturned /\ type = eGraphType_DIRECTED /\ Acyclic) =>
        \A u \in Reachable : \A v \in NeighborsOf(vertices, u) :
            /\ PositionOf(vertices[v].data) > 0
            /\ PositionOf(vertices[v].data) < PositionOf(vertices[u].data)

\* An acyclic DIRECTED graph with an entry u -> v where v was discovered from
\* another vertex than u.
C10_Witness ==
    /\ VisitReturned
    /\ type = eGraphType_DIRECTED
    /\ Acyclic
    /\ \E u \in Reachable : \E v \in NeighborsOf(vertices, u) :
           vertices[v].predecessor # vertices[u].data

====
